---- MODULE Spec2Model ----
(***************************************************************************)
(* A model of app.py: the detection store, the ingestion handler (detect), *)
(* the location-update handler (update_location), the district resolver    *)
(* (get_district_from_coordinates) and the analytics handler               *)
(* (api_analytics_data).                                                   *)
(*                                                                         *)
(* Units.  Latitudes and longitudes are integers in micro-degrees.         *)
(* Distances are integers in millimetres.  Instants are integers in ticks, *)
(* TicksPerDay ticks to a calendar day; the server's local time zone is    *)
(* taken to be UTC, the zone of SQLite's CURRENT_TIMESTAMP.                *)
(* Optional values (Python's None) are sequences of length at most one.    *)
(***************************************************************************)
EXTENDS Integers, Sequences, FiniteSets, TLC

VARIABLES
  store,   \* the rows of table detections, in insertion (id) order
  now,     \* the wall clock, in ticks
  req,     \* the request the last completed handler served
  resp,    \* the response it returned
  job      \* the analytics request in flight when its queries are interleaved

vars == <<store, now, req, resp, job>>

-----------------------------------------------------------------------------
(* Bounds of the model *)

MaxRecords == 2

MaxWeeks == 2

(* The resolution of timestamps (a second in the program): two instants a  *)
(* day.  Two are enough to put a row before, at and after the time of day  *)
(* of a later instant.                                                      *)
TicksPerDay == 2

-----------------------------------------------------------------------------
(* Python values *)

None == <<>>

Some(x) == <<x>>

IsNone(o) == Len(o) = 0

Val(o) == o[1]

\* float('inf'), line 107: larger than every distance of the table below
INF == 2147483647

-----------------------------------------------------------------------------
(* Bounding box, lines 32-36, in micro-degrees *)

UGANDA_LAT_MIN == -1500000

UGANDA_LAT_MAX == 4200000

UGANDA_LON_MIN == 29500000

UGANDA_LON_MAX == 35000000

(* The gazetteer, lines 40-81, in the dict's insertion order, which is the  *)
(* order .items() and .keys() enumerate it in.                              *)
UGANDA_DISTRICT_COORDS ==
  <<[name |-> "Kampala", lat |-> 347600, lon |-> 32582500],
     [name |-> "Wakiso", lat |-> 403300, lon |-> 32461700],
     [name |-> "Mukono", lat |-> 353300, lon |-> 32755000],
     [name |-> "Jinja", lat |-> 425000, lon |-> 33203300],
     [name |-> "Mbale", lat |-> 1075000, lon |-> 34175000],
     [name |-> "Mbarara", lat |-> -616700, lon |-> 30650000],
     [name |-> "Gulu", lat |-> 2783300, lon |-> 32283300],
     [name |-> "Lira", lat |-> 2250000, lon |-> 32900000],
     [name |-> "Arua", lat |-> 3016700, lon |-> 30900000],
     [name |-> "Masaka", lat |-> -333300, lon |-> 31733300],
     [name |-> "Kabale", lat |-> -1250000, lon |-> 30000000],
     [name |-> "Fort Portal", lat |-> 666700, lon |-> 30266700],
     [name |-> "Hoima", lat |-> 1433300, lon |-> 31350000],
     [name |-> "Soroti", lat |-> 1716700, lon |-> 33616700],
     [name |-> "Tororo", lat |-> 708300, lon |-> 34175000],
     [name |-> "Moroto", lat |-> 2533300, lon |-> 34666700],
     [name |-> "Kitgum", lat |-> 3283300, lon |-> 32883300],
     [name |-> "Kasese", lat |-> 183300, lon |-> 30083300],
     [name |-> "Entebbe", lat |-> 50000, lon |-> 32463300],
     [name |-> "Iganga", lat |-> 616700, lon |-> 33483300],
     [name |-> "Mityana", lat |-> 416700, lon |-> 32033300],
     [name |-> "Luwero", lat |-> 850000, lon |-> 32466700],
     [name |-> "Masindi", lat |-> 1675000, lon |-> 31715000],
     [name |-> "Busia", lat |-> 466700, lon |-> 34083300],
     [name |-> "Mubende", lat |-> 583300, lon |-> 31366700],
     [name |-> "Ntungamo", lat |-> -883300, lon |-> 30266700],
     [name |-> "Adjumani", lat |-> 3366700, lon |-> 31783300],
     [name |-> "Moyo", lat |-> 3650000, lon |-> 31716700],
     [name |-> "Nebbi", lat |-> 2483300, lon |-> 31083300],
     [name |-> "Apac", lat |-> 1983300, lon |-> 32533300],
     [name |-> "Kotido", lat |-> 2983300, lon |-> 34133300],
     [name |-> "Rukungiri", lat |-> -841700, lon |-> 29941700],
     [name |-> "Bushenyi", lat |-> -533300, lon |-> 30216700],
     [name |-> "Kiboga", lat |-> 916700, lon |-> 31766700],
     [name |-> "Kibale", lat |-> 800000, lon |-> 30700000],
     [name |-> "Kabarole", lat |-> 650000, lon |-> 30250000],
     [name |-> "Kamuli", lat |-> 946700, lon |-> 33120000],
     [name |-> "Pallisa", lat |-> 1145000, lon |-> 33710000],
     [name |-> "Kumi", lat |-> 1460000, lon |-> 33936700],
     [name |-> "Rakai", lat |-> -716700, lon |-> 31533300] >>

DistrictNames == {UGANDA_DISTRICT_COORDS[i].name : i \in 1..Len(UGANDA_DISTRICT_COORDS)}

-----------------------------------------------------------------------------
(* Sample coordinates of requests.  K_TIE stands for the double             *)
(* 0.8916499999999999 (the double next below 0.89165), at which the         *)
(* haversine distances to Mbale and Tororo are the same double.             *)

K_KAMPALA == <<347600, 32582500>>

K_TIE == <<891650, 34175000>>

K_CORNER == <<-1500000, 29500000>>

K_NEAR50 == <<2084300, 34666700>>

K_FAR_OUT == <<10000000, 10000000>>

K_LON_OUT == <<347600, 35000100>>

(* calculate_distance, lines 83-96.  TLC has no floating point: the table   *)
(* holds, for each in-box sample coordinate and each gazetteer entry (in    *)
(* gazetteer order), the double the haversine formula of lines 88-96        *)
(* returns, in millimetres rounded down.  On these points the rounding      *)
(* keeps the order and the equalities of the doubles and their comparison   *)
(* with 50 km.                                                              *)
HaversineMm ==

     (<<347600, 32582500>> :>
      <<0, 14791225, 19191235, 69562698, 194662339, 240148143, 272871416, 214461287,
        350783403, 121031831, 337651705, 259927990, 182623521, 190776486, 181555711, 335762676,
        328141946, 278495163, 35647331, 104534852, 61548375, 57328921, 176315989, 167401770,
        137703345, 291613246, 347257082, 379602207, 290114000, 181963760, 339999080, 322040915,
        280706510, 110599438, 215273439, 261522737, 89495516, 153548349, 194853919, 166180140>>)
  @@ (<<891650, 34175000>> :>
      <<187116019, 198085888, 168854095, 119855197, 20387589, 426327141, 297389024, 207116538,
        433913246, 303748084, 521729267, 435261969, 319782860, 110762623, 20387589, 190547719,
        302197082, 461721203, 212089305, 82760896, 243915953, 189988803, 287005865, 48339770,
        314119326, 477284513, 382570544, 410685383, 386521176, 219172527, 232627026, 508635796,
        467781348, 267771878, 386494593, 437226703, 117455163, 58874807, 68525693, 343894361>>)
  @@ (<<-1500000, 29500000>> :>
      <<399585234, 391441005, 416465611, 464064777, 593433790, 161222730, 567952912, 562803179,
        525791181, 280144328, 62145495, 255562535, 385607591, 580878988, 574873081, 728722194,
        651390209, 198091456, 371825342, 501541504, 353211092, 420815016, 430449090, 554535862,
        311029936, 109395005, 597704615, 623398248, 476614237, 513562767, 716779520, 88144280,
        133803765, 368414027, 288459290, 253195097, 485814230, 552816698, 593009182, 242248203>>)
  @@ (<<2084300, 34666700>> :>
      <<301617694, 308255636, 286723962, 245980656, 124829139, 538160968, 275953474, 197170259,
        431071889, 422633449, 637684654, 513877457, 375664715, 123642226, 162473622, 49926522,
        238772203, 551634412, 333420790, 209608504, 346526850, 280425928, 331178866, 191203355,
        403017960, 590068978, 350562069, 370991228, 400602886, 237339634, 116205595, 617903918,
        573999093, 347512706, 463477543, 516216687, 213443941, 149051485, 106778141, 467289210>>)

GazetteerIndex(lat, lon) ==
  CHOOSE i \in 1..Len(UGANDA_DISTRICT_COORDS) :
    UGANDA_DISTRICT_COORDS[i].lat = lat /\ UGANDA_DISTRICT_COORDS[i].lon = lon

calculate_distance(lat1, lon1, lat2, lon2) ==
  HaversineMm[<<lat1, lon1>>][GazetteerIndex(lat2, lon2)]

-----------------------------------------------------------------------------
(* get_district_from_coordinates, lines 98-121 *)

\* line 102-103
in_uganda(latitude, longitude) ==
  /\ UGANDA_LAT_MIN <= latitude /\ latitude <= UGANDA_LAT_MAX
  /\ UGANDA_LON_MIN <= longitude /\ longitude <= UGANDA_LON_MAX

closer_or_equal(distance, min_distance) == distance <= min_distance

\* line 113
closer(distance, min_distance) == distance < min_distance

\* lines 109-115: the loop over UGANDA_DISTRICT_COORDS.items(), from entry i on
RECURSIVE closest_from(_, _, _, _, _)
closest_from(latitude, longitude, i, closest_district, min_distance) ==
  IF i > Len(UGANDA_DISTRICT_COORDS)
  THEN [closest_district |-> closest_district, min_distance |-> min_distance]
  ELSE LET e == UGANDA_DISTRICT_COORDS[i]
           distance == calculate_distance(latitude, longitude, e.lat, e.lon)
       IN  IF closer(distance, min_distance)
           THEN closest_from(latitude, longitude, i + 1, Some(e.name), distance)
           ELSE closest_from(latitude, longitude, i + 1, closest_district, min_distance)

\* line 119: 50 km, in millimetres
within_reach(min_distance) == min_distance <= 50 * 1000000

get_district_from_coordinates(latitude, longitude) ==
  IF ~ in_uganda(latitude, longitude)
  THEN None
  ELSE LET r == closest_from(latitude, longitude, 1, None, INF)
       IN  IF within_reach(r.min_distance) THEN r.closest_district ELSE None

-----------------------------------------------------------------------------
(* Texts are sequences of characters, so that lower() and the substring    *)
(* test `in` are computed and not assumed.                                  *)

UPPER == <<"A", "B", "C", "D", "E", "F", "G", "H", "I", "J", "K", "L", "M",
           "N", "O", "P", "Q", "R", "S", "T", "U", "V", "W", "X", "Y", "Z">>

LOWER == <<"a", "b", "c", "d", "e", "f", "g", "h", "i", "j", "k", "l", "m",
           "n", "o", "p", "q", "r", "s", "t", "u", "v", "w", "x", "y", "z">>

lower_char(c) ==
  IF \E i \in 1..Len(UPPER) : UPPER[i] = c
  THEN LOWER[CHOOSE i \in 1..Len(UPPER) : UPPER[i] = c]
  ELSE c

\* str.lower(), line 193
lower(text) == [i \in 1..Len(text) |-> lower_char(text[i])]

\* the substring test `pattern in text`, lines 194-200
contains(text, pattern) ==
  \E i \in 1..(Len(text) - Len(pattern) + 1) :
    SubSeq(text, i, i + Len(pattern) - 1) = pattern

P_LARVAL == <<"l", "a", "r", "v", "a", "l", " ", "d", "a", "m", "a", "g", "e">>

P_EGG == <<"e", "g", "g">>

P_FRASS == <<"f", "r", "a", "s", "s">>

P_HEALTHY == <<"h", "e", "a", "l", "t", "h", "y">>

\* the mapping with the tests for 'egg' and 'larval damage' exchanged
detection_class_egg_first(result) ==
  LET result_text == lower(result)
  IN  IF contains(result_text, P_EGG) THEN "fall-armyworm-egg"
      ELSE IF contains(result_text, P_LARVAL) THEN "fall-armyworm-larval-damage"
      ELSE IF contains(result_text, P_FRASS) THEN "fall-armyworm-frass"
      ELSE IF contains(result_text, P_HEALTHY) THEN "healthy-maize"
      ELSE "unknown"

\* lines 190-201
detection_class_of(result) ==
  LET result_text == lower(result)
  IN  IF contains(result_text, P_LARVAL) THEN "fall-armyworm-larval-damage"
      ELSE IF contains(result_text, P_EGG) THEN "fall-armyworm-egg"
      ELSE IF contains(result_text, P_FRASS) THEN "fall-armyworm-frass"
      ELSE IF contains(result_text, P_HEALTHY) THEN "healthy-maize"
      ELSE "unknown"

\* the class buckets of lines 450 and 504, in their order
CLASSES == <<"fall-armyworm-larval-damage", "fall-armyworm-egg",
             "fall-armyworm-frass", "healthy-maize", "unknown">>

-----------------------------------------------------------------------------
(* What detector.detect returns (model_utils is no part of app.py): a dict *)
(* with result, description, confidence and is_maize; or it raises.        *)

T_LARVAL == <<"L", "a", "r", "v", "a", "l", " ", "d", "a", "m", "a", "g", "e",
              " ", "a", "n", "d", " ", "e", "g", "g">>

T_EGG == <<"E", "G", "G", " ", "m", "a", "s", "s">>

T_FRASS == <<"F", "r", "a", "s", "s", " ", "s", "e", "e", "n">>

T_HEALTHY == <<"h", "e", "a", "l", "t", "h", "y", " ", "m", "a", "i", "z", "e",
               " ", "l", "e", "a", "f">>

T_EMPTY == <<>>

T_OTHER == <<"N", "o", "t", " ", "m", "a", "i", "z", "e">>

\* confidence is a percentage here (0.0 to 1.0 in the program)
Results(result, description, confidence, is_maize) ==
  [raised |-> FALSE, result |-> result, description |-> description,
   confidence |-> confidence, is_maize |-> is_maize]

DetectorRaises ==
  [raised |-> TRUE, result |-> T_EMPTY, description |-> "", confidence |-> 0,
   is_maize |-> FALSE]

O_LARVAL == Results(T_LARVAL, "larvae feeding", 90, TRUE)

O_EGG == Results(T_EGG, "egg mass", 80, TRUE)

O_HEALTHY == Results(T_HEALTHY, "no damage", 95, TRUE)

O_EMPTY == Results(T_EMPTY, "", 50, TRUE)

O_OTHER == Results(T_OTHER, "not a maize leaf", 70, FALSE)

-----------------------------------------------------------------------------
(* Requests and responses.  The server of this model takes one request at  *)
(* a time: a handler runs when no response is waiting to be returned.      *)

NoRequest == [op |-> "none"]

NoResponse == [status |-> 0, error |-> ""]

\* the response goes out to the caller
Return ==
  /\ resp # NoResponse
  /\ resp' = NoResponse
  /\ req' = NoRequest
  /\ UNCHANGED <<store, now, job>>

\* a form field that float() parses
Num(v) == [numeric |-> TRUE, value |-> v]

\* a form field on which float() raises ValueError
NotNum == [numeric |-> FALSE, value |-> 0]

Form(file, latitude, longitude, district) ==
  [file |-> file, latitude |-> latitude, longitude |-> longitude,
   district |-> district]

FormAt(k, district) == Form(Some("leaf.jpg"), Some(Num(k[1])), Some(Num(k[2])), district)

InBoxSamples == {K_KAMPALA, K_TIE, K_CORNER, K_NEAR50}

OutOfBoxSamples == {K_FAR_OUT, K_LON_OUT}

\* ingestion requests, each with what the detector makes of its image
DetectRequests ==
  {<<FormAt(k, None), O_EGG>> : k \in InBoxSamples \cup OutOfBoxSamples}
  \cup {<<FormAt(K_KAMPALA, Some("Nairobi")), O_EGG>>,
        <<FormAt(K_KAMPALA, None), O_OTHER>>,
        <<FormAt(K_KAMPALA, None), DetectorRaises>>,
        <<Form(None, Some(Num(K_KAMPALA[1])), Some(Num(K_KAMPALA[2])), None), O_EGG>>,
        <<Form(Some(""), Some(Num(K_KAMPALA[1])), Some(Num(K_KAMPALA[2])), None), O_EGG>>,
        <<Form(Some("leaf.jpg"), None, Some(Num(K_KAMPALA[2])), None), O_EGG>>,
        <<Form(Some("leaf.jpg"), Some(Num(K_KAMPALA[1])), Some(NotNum), Some("")), O_EGG>>}

-----------------------------------------------------------------------------
(* detect, lines 123-231 *)

\* lines 139-143 and 146-150
form_float(field) ==
  IF IsNone(field) THEN None
  ELSE IF Val(field).numeric THEN Some(Val(field).value) ELSE None

\* line 153: request.form.get('district', '')
form_district(field) == IF IsNone(field) THEN "" ELSE Val(field)

\* lines 155-159
district_for(latitude, longitude, district) ==
  IF ~ IsNone(latitude) /\ ~ IsNone(longitude) /\ district = ""
  THEN LET determined_district ==
             get_district_from_coordinates(Val(latitude), Val(longitude))
       IN  IF ~ IsNone(determined_district) /\ Val(determined_district) # ""
           THEN Val(determined_district) ELSE district
  ELSE district

location_missing_lat_only(latitude, longitude) ==
  \/ IsNone(latitude)
  \/ IsNone(longitude)
  \/ ~ (UGANDA_LAT_MIN <= Val(latitude) /\ Val(latitude) <= UGANDA_LAT_MAX)

\* lines 162-164
location_missing(latitude, longitude) ==
  \/ IsNone(latitude)
  \/ IsNone(longitude)
  \/ ~ (UGANDA_LAT_MIN <= Val(latitude) /\ Val(latitude) <= UGANDA_LAT_MAX)
  \/ ~ (UGANDA_LON_MIN <= Val(longitude) /\ Val(longitude) <= UGANDA_LON_MAX)

\* AUTOINCREMENT, line 17: one more than the largest id ever used
next_id(S) == IF S = <<>> THEN 1 ELSE S[Len(S)].id + 1

\* lines 210-215, with timestamp DEFAULT CURRENT_TIMESTAMP of line 26
new_row(S, t, results, detection_class, latitude, longitude, district) ==
  [id |-> next_id(S), result |-> results.result,
   description |-> results.description, confidence |-> results.confidence,
   class |-> detection_class, latitude |-> latitude, longitude |-> longitude,
   district |-> district, timestamp |-> t]

Reply(S, status, error) ==
  [store |-> S, resp |-> [status |-> status, error |-> error]]

\* the handler, run on the rows S at instant t: the rows it leaves and its response
detect_handler(S, t, form, results) ==
  IF IsNone(form.file) THEN Reply(S, 400, "No file uploaded")
  ELSE IF Val(form.file) = "" THEN Reply(S, 400, "No file selected")
  ELSE
    LET latitude == form_float(form.latitude)
        longitude == form_float(form.longitude)
        district == district_for(latitude, longitude, form_district(form.district))
    IN  IF location_missing(latitude, longitude)
        THEN Reply(S, 400, "Valid location data is required")
        ELSE IF results.raised THEN Reply(S, 500, "exception")
        ELSE
          LET detection_class == detection_class_of(results.result)
          IN  IF results.is_maize
              THEN LET row == new_row(S, t, results, detection_class,
                                      Val(latitude), Val(longitude), district)
                   IN  [store |-> Append(S, row),
                        resp |-> [status |-> 200, error |-> "",
                                  result |-> results.result,
                                  class |-> detection_class, stored |-> TRUE,
                                  id |-> row.id, latitude |-> row.latitude,
                                  longitude |-> row.longitude,
                                  district |-> row.district]]
              ELSE [store |-> S,
                    resp |-> [status |-> 200, error |-> "",
                              result |-> results.result,
                              class |-> detection_class, stored |-> FALSE]]

detect(form, results) ==
  /\ resp = NoResponse
  /\ Len(store) < MaxRecords
  /\ LET r == detect_handler(store, now, form, results)
     IN  store' = r.store /\ resp' = r.resp
  /\ req' = [op |-> "detect", form |-> form, results |-> results]
  /\ UNCHANGED <<now, job>>

-----------------------------------------------------------------------------
(* update_location, lines 257-295 *)

Body(latitude, longitude, district) ==
  [latitude |-> latitude, longitude |-> longitude, district |-> district]

\* location updates: the id in the URL and the JSON body
UpdateRequests ==
  {<<1, Body(Some(K_KAMPALA[1]), Some(K_KAMPALA[2]), None)>>,
   <<1, Body(Some(K_TIE[1]), Some(K_TIE[2]), Some("Nairobi"))>>,
   <<1, Body(Some(K_FAR_OUT[1]), Some(K_FAR_OUT[2]), None)>>,
   <<1, Body(None, Some(K_KAMPALA[2]), None)>>,
   <<MaxRecords + 1, Body(Some(K_KAMPALA[1]), Some(K_KAMPALA[2]), None)>>}

(* lines 262-264: request.json is the dict json.loads built, and dict.get   *)
(* takes no keyword argument: .get('latitude', type=float) raises          *)
(* TypeError whatever the body holds.                                       *)
dict_get_typed(body, key) == [raised |-> TRUE, value |-> None]

\* lines 282-288: UPDATE ... WHERE id = ?, and its rowcount
update_rows(S, detection_id, latitude, longitude, district) ==
  [i \in 1..Len(S) |->
     IF S[i].id = detection_id
     THEN [S[i] EXCEPT !.latitude = latitude, !.longitude = longitude,
                       !.district = district]
     ELSE S[i]]

rowcount(S, detection_id) == Cardinality({i \in 1..Len(S) : S[i].id = detection_id})

\* Python truth of an optional float: None and 0.0 are false (line 267)
truthy(x) == ~ IsNone(x) /\ Val(x) # 0

update_location_handler(S, detection_id, body) ==
  LET latitude == dict_get_typed(body, "latitude")
      longitude == dict_get_typed(body, "longitude")
  IN  IF latitude.raised \/ longitude.raised THEN Reply(S, 500, "exception")
      ELSE IF ~ truthy(latitude.value) \/ ~ truthy(longitude.value)
      THEN Reply(S, 400, "Missing location data")
      ELSE IF ~ (UGANDA_LAT_MIN <= Val(latitude.value)
                 /\ Val(latitude.value) <= UGANDA_LAT_MAX)
              \/ ~ (UGANDA_LON_MIN <= Val(longitude.value)
                    /\ Val(longitude.value) <= UGANDA_LON_MAX)
      THEN Reply(S, 400, "Coordinates outside Uganda")
      ELSE
        LET supplied == IF IsNone(body.district) THEN "" ELSE Val(body.district)
            determined == get_district_from_coordinates(Val(latitude.value),
                                                        Val(longitude.value))
            district == IF supplied # "" THEN supplied
                        ELSE IF IsNone(determined) THEN "" ELSE Val(determined)
            S2 == update_rows(S, detection_id, Val(latitude.value),
                              Val(longitude.value), district)
        IN  IF rowcount(S, detection_id) = 0
            THEN Reply(S2, 404, "Detection not found")
            ELSE [store |-> S2,
                  resp |-> [status |-> 200, error |-> "", district |-> district]]

update_location(detection_id, body) ==
  /\ resp = NoResponse
  /\ LET r == update_location_handler(store, detection_id, body)
     IN  store' = r.store /\ resp' = r.resp
  /\ req' = [op |-> "update_location", detection_id |-> detection_id,
             body |-> body]
  /\ UNCHANGED <<now, job>>

-----------------------------------------------------------------------------
(* The clock *)

MaxClock == MaxWeeks * 7 * TicksPerDay + TicksPerDay - 1

date(t) == t \div TicksPerDay

\* time passes within the day
TickSameDay ==
  /\ resp = NoResponse
  /\ (now % TicksPerDay) + 1 < TicksPerDay
  /\ now' = now + 1
  /\ UNCHANGED <<store, req, resp, job>>

\* a week passes
TickWeek ==
  /\ resp = NoResponse
  /\ now + 7 * TicksPerDay <= MaxClock
  /\ now' = now + 7 * TicksPerDay
  /\ UNCHANGED <<store, req, resp, job>>

-----------------------------------------------------------------------------
(* api_analytics_data, lines 356-539.  Each operator q_... is one SQL query *)
(* of the handler, evaluated on the rows S the store holds when the query  *)
(* runs, at instant t.                                                      *)

\* `if class_filter:` and `if district_filter:`: None and '' are false
given(filter) == ~ IsNone(filter) /\ Val(filter) # ""

\* latitude BETWEEN ? AND ? AND longitude BETWEEN ? AND ?
between_bounds(row) ==
  /\ UGANDA_LAT_MIN <= row.latitude /\ row.latitude <= UGANDA_LAT_MAX
  /\ UGANDA_LON_MIN <= row.longitude /\ row.longitude <= UGANDA_LON_MAX

\* timestamp >= datetime('now', '-N days')
since(row, t, days) == row.timestamp >= t - days * TicksPerDay

\* lines 378-384 and 465-471
passes_filters(row, class_filter, district_filter) ==
  /\ given(class_filter) => row.class = Val(class_filter)
  /\ given(district_filter) => row.district = Val(district_filter)

\* lines 370-388: the filtered detections, in id order
q_base(S, t, days, class_filter, district_filter) ==
  SelectSeq(S, LAMBDA row : /\ since(row, t, days)
                            /\ between_bounds(row)
                            /\ passes_filters(row, class_filter, district_filter))

q_week_count_through(S, from_date, to_date) ==
  Cardinality({i \in 1..Len(S) :
                        /\ date(S[i].timestamp) >= from_date
                        /\ date(S[i].timestamp) <= to_date
                        /\ between_bounds(S[i])})

(* lines 413-430: timestamp >= ? AND timestamp < ? against the dates       *)
(* strftime('%Y-%m-%d') gives.  The comparison is of strings: a timestamp  *)
(* 'YYYY-MM-DD HH:MM:SS' is >= a date 'YYYY-MM-DD' exactly when its day is *)
(* that day or later, and < it exactly when its day is earlier.            *)
q_week_count(S, from_date, to_date) ==
  Cardinality({i \in 1..Len(S) :
                        /\ date(S[i].timestamp) >= from_date
                        /\ date(S[i].timestamp) < to_date
                        /\ between_bounds(S[i])})

\* lines 459-463 and 510-514
in_bucket(row, detection_class) ==
  IF detection_class # "unknown" THEN row.class = detection_class
  ELSE row.class = "unknown"

\* lines 454-474
q_daily_count(S, day, detection_class, class_filter, district_filter) ==
  Cardinality({i \in 1..Len(S) :
                        /\ date(S[i].timestamp) = day
                        /\ between_bounds(S[i])
                        /\ in_bucket(S[i], detection_class)
                        /\ passes_filters(S[i], class_filter, district_filter)})

counted_district(row, t, days) ==
  since(row, t, days) /\ between_bounds(row) /\ row.district # ""

\* lines 481-492: GROUP BY district (the order of the keys is not modelled)
q_district_counts(S, t, days) ==
  [d \in {S[i].district : i \in {j \in 1..Len(S) : counted_district(S[j], t, days)}} |->
     Cardinality({i \in 1..Len(S) : counted_district(S[i], t, days) /\ S[i].district = d})]

\* lines 505-517
q_district_class_count(S, t, days, district, detection_class) ==
  Cardinality({i \in 1..Len(S) :
                        /\ S[i].district = district
                        /\ since(S[i], t, days)
                        /\ between_bounds(S[i])
                        /\ in_bucket(S[i], detection_class)})

(* round(x, 1) of x = n / d with d > 0, in tenths: the nearest tenth, the  *)
(* even one of two equally near.                                            *)
round1(n, d) ==
  LET q == (10 * n) \div d
      r == (10 * n) % d
  IN  IF 2 * r > d THEN q + 1
      ELSE IF 2 * r < d THEN q
      ELSE IF q % 2 = 0 THEN q ELSE q + 1

\* line 399: detection['class'] or 'unknown'
class_or_unknown(class) == IF class = "" THEN "unknown" ELSE class

class_distribution_skipping_unknown(detections) ==
  [c \in {detections[i].class : i \in 1..Len(detections)} \ {"unknown"} |->
     Cardinality({i \in 1..Len(detections) : detections[i].class = c})]

\* lines 396-400
class_distribution_of(detections) ==
  [c \in {class_or_unknown(detections[i].class) : i \in 1..Len(detections)} |->
     Cardinality({i \in 1..Len(detections) : class_or_unknown(detections[i].class) = c})]

RECURSIVE sum_values(_)
sum_values(f) ==
  IF DOMAIN f = {} THEN 0
  ELSE LET k == CHOOSE k \in DOMAIN f : TRUE
       IN  f[k] + sum_values([x \in DOMAIN f \ {k} |-> f[x]])

\* the rate with the healthy rows left in the count
infestation_rate_counting_healthy(class_distribution) ==
  LET total_classified == sum_values(class_distribution)
  IN  IF total_classified > 0
      THEN round1(total_classified * 100, total_classified)
      ELSE 0

\* lines 402-405, and round(infestation_rate, 1) of line 529, in tenths
infestation_rate_of(class_distribution) ==
  LET total_classified == sum_values(class_distribution)
      healthy == IF "healthy-maize" \in DOMAIN class_distribution
                 THEN class_distribution["healthy-maize"] ELSE 0
      infestation_count == total_classified - healthy
  IN  IF total_classified > 0
      THEN round1(infestation_count * 100, total_classified)
      ELSE 0

\* lines 432-436, and round(recent_trend, 1) of line 530, in tenths
recent_trend_of(last_week_count, previous_week_count) ==
  IF previous_week_count > 0
  THEN round1((last_week_count - previous_week_count) * 100, previous_week_count)
  ELSE IF last_week_count = 0 THEN 0 ELSE 100 * 10

\* lines 445-447: the days from the one `days` days ago to today
date_range(t, days) == [i \in 1..(days + 1) |-> date(t - days * TicksPerDay) + (i - 1)]

\* the position of the daily count of class number c and day number i in
\* the order the loops of lines 450-475 run their queries
daily_index(c, i, days) == (c - 1) * (days + 1) + i

\* the position of the count of district number g and class number c in the
\* order the loops of lines 501-520 run their queries
breakdown_index(g, c) == (g - 1) * Len(CLASSES) + c

\* lines 439-447 and 477: labels, and per class the counts of its days
time_series_of(t, days, daily_counts) ==
  [labels |-> date_range(t, days),
   data |-> [c \in 1..Len(CLASSES) |->
               [i \in 1..(days + 1) |-> daily_counts[daily_index(c, i, days)]]]]

\* the number of the gazetteer entry of a district, and of a class
district_number(district) ==
  CHOOSE g \in 1..Len(UGANDA_DISTRICT_COORDS) :
    UGANDA_DISTRICT_COORDS[g].name = district

class_number(detection_class) ==
  CHOOSE c \in 1..Len(CLASSES) : CLASSES[c] = detection_class

\* line 520: the classes of district number g whose count is not zero, with
\* their counts
counted_classes(breakdown_counts, g) ==
  [detection_class \in
     {CLASSES[c] : c \in {x \in 1..Len(CLASSES) :
                            breakdown_counts[breakdown_index(g, x)] > 0}} |->
     breakdown_counts[breakdown_index(g, class_number(detection_class))]]

\* the breakdown with an entry only for the districts that have a count
district_class_data_of_counted(breakdown_counts) ==
  [district \in {d \in DistrictNames :
                   DOMAIN counted_classes(breakdown_counts, district_number(d)) # {}} |->
     counted_classes(breakdown_counts, district_number(district))]

\* lines 495-520: a dict with a key for every gazetteer district, its value
\* the dict of the district's classes of non-zero count
district_class_data_of(breakdown_counts) ==
  [district \in DistrictNames |->
     counted_classes(breakdown_counts, district_number(district))]

\* lines 391-405, 432-436 and 526-537: the response, from the query results
response_data(t, days, detections, last_week_count, previous_week_count, daily_counts, district_counts, breakdown_counts) ==
  LET class_distribution == class_distribution_of(detections)
  IN  [status |-> 200, error |-> "",
       total_detections |-> Len(detections),
       districts_affected |->
         Cardinality({detections[i].district : i \in 1..Len(detections)} \ {""}),
       infestation_rate |-> infestation_rate_of(class_distribution),
       recent_trend |-> recent_trend_of(last_week_count, previous_week_count),
       class_distribution |-> class_distribution,
       time_series |-> time_series_of(t, days, daily_counts),
       district_counts |-> district_counts,
       district_class_data |-> district_class_data_of(breakdown_counts)]

\* the queries of lines 450-475, in order, all on the rows S
daily_counts_on(S, t, days, class_filter, district_filter) ==
  [k \in 1..(Len(CLASSES) * (days + 1)) |->
     q_daily_count(S, date_range(t, days)[((k - 1) % (days + 1)) + 1],
                   CLASSES[((k - 1) \div (days + 1)) + 1],
                   class_filter, district_filter)]

\* the queries of lines 501-517, in order, all on the rows S
breakdown_counts_on(S, t, days) ==
  [k \in 1..(Len(UGANDA_DISTRICT_COORDS) * Len(CLASSES)) |->
     q_district_class_count(S, t, days,
                            UGANDA_DISTRICT_COORDS[((k - 1) \div Len(CLASSES)) + 1].name,
                            CLASSES[((k - 1) % Len(CLASSES)) + 1])]

\* the handler run with no write between its queries
api_analytics_data_handler(S, t, days, class_filter, district_filter) ==
  response_data(t, days,
                q_base(S, t, days, class_filter, district_filter),
                q_week_count(S, date(t - 7 * TicksPerDay), date(t)),
                q_week_count(S, date(t - 14 * TicksPerDay), date(t - 7 * TicksPerDay)),
                daily_counts_on(S, t, days, class_filter, district_filter),
                q_district_counts(S, t, days),
                breakdown_counts_on(S, t, days))

Query(days, class_filter, district_filter) ==
  [op |-> "analytics_data", days |-> days, class |-> class_filter,
   district |-> district_filter]

api_analytics_data(days, class_filter, district_filter) ==
  /\ resp = NoResponse
  /\ resp' = api_analytics_data_handler(store, now, days, class_filter,
                                        district_filter)
  /\ req' = Query(days, class_filter, district_filter)
  /\ UNCHANGED <<store, now, job>>

-----------------------------------------------------------------------------
(* The store and its two writers *)

Idle ==
  [pc |-> "idle", query |-> NoRequest, detections |-> <<>>,
   last_week_count |-> 0, previous_week_count |-> 0, daily_counts |-> <<>>,
   district_counts |-> <<>>, breakdown_counts |-> <<>>,
   response |-> NoResponse]

\* init_db, lines 13-30: the table exists and is empty
Init ==
  /\ store = <<>>
  /\ now = 0
  /\ req = NoRequest
  /\ resp = NoResponse
  /\ job = Idle

Next ==
  \/ \E r \in DetectRequests : detect(r[1], r[2])
  \/ \E u \in UpdateRequests : update_location(u[1], u[2])
  \/ Return
  \/ TickSameDay

Spec == Init /\ [][Next]_vars

-----------------------------------------------------------------------------
(* The store, the clock and the analytics handler *)

IngestSamples ==
  {<<FormAt(K_KAMPALA, None), O_HEALTHY>>,
   <<FormAt(K_CORNER, None), O_EGG>>,
   <<FormAt(K_CORNER, Some("Nairobi")), O_EMPTY>>,
   <<FormAt(K_FAR_OUT, None), O_EGG>>}

Queries ==
  {Query(0, None, None),
   Query(7, None, None),
   Query(7, Some("fall-armyworm-egg"), None),
   Query(0, None, Some("Kampala"))}

NextAnalytics ==
  \/ \E sample \in IngestSamples : detect(sample[1], sample[2])
  \/ Return
  \/ TickSameDay
  \/ TickWeek
  \/ \E q \in Queries : api_analytics_data(q.days, q.class, q.district)

SpecAnalytics == Init /\ [][NextAnalytics]_vars

-----------------------------------------------------------------------------
(* The analytics handler beside a writer.  The handler opens a connection  *)
(* (line 366) and runs its queries one by one with no transaction around   *)
(* them: each SELECT reads the rows committed when it runs, and an         *)
(* ingestion served by another thread may commit between any two of them.  *)

analytics_begin(days, class_filter, district_filter) ==
  /\ job.pc = "idle"
  /\ job' = [Idle EXCEPT !.pc = "base",
                         !.query = Query(days, class_filter, district_filter)]
  /\ UNCHANGED <<store, now, req, resp>>

\* lines 387-388
analytics_base ==
  /\ job.pc = "base"
  /\ job' = [job EXCEPT !.pc = "last_week",
                        !.detections = q_base(store, now, job.query.days,
                                              job.query.class, job.query.district)]
  /\ UNCHANGED <<store, now, req, resp>>

\* lines 413-420
analytics_last_week ==
  /\ job.pc = "last_week"
  /\ job' = [job EXCEPT !.pc = "previous_week",
                        !.last_week_count =
                           q_week_count(store, date(now - 7 * TicksPerDay), date(now))]
  /\ UNCHANGED <<store, now, req, resp>>

\* lines 423-430
analytics_previous_week ==
  /\ job.pc = "previous_week"
  /\ job' = [job EXCEPT !.pc = "daily",
                        !.previous_week_count =
                           q_week_count(store, date(now - 14 * TicksPerDay),
                                        date(now - 7 * TicksPerDay))]
  /\ UNCHANGED <<store, now, req, resp>>

\* lines 473-475: the next query of the loops of lines 450-475
analytics_daily ==
  /\ job.pc = "daily"
  /\ LET days == job.query.days
         k == Len(job.daily_counts) + 1
         count == q_daily_count(store,
                                date_range(now, days)[((k - 1) % (days + 1)) + 1],
                                CLASSES[((k - 1) \div (days + 1)) + 1],
                                job.query.class, job.query.district)
     IN  job' = [job EXCEPT !.daily_counts = Append(@, count),
                            !.pc = IF k = Len(CLASSES) * (days + 1)
                                   THEN "district_counts" ELSE "daily"]
  /\ UNCHANGED <<store, now, req, resp>>

\* lines 481-492
analytics_district_counts ==
  /\ job.pc = "district_counts"
  /\ job' = [job EXCEPT !.pc = "breakdown",
                        !.district_counts =
                           q_district_counts(store, now, job.query.days)]
  /\ UNCHANGED <<store, now, req, resp>>

\* lines 516-517: the next query of the loops of lines 501-520
analytics_breakdown ==
  /\ job.pc = "breakdown"
  /\ LET k == Len(job.breakdown_counts) + 1
         count == q_district_class_count(
                    store, now, job.query.days,
                    UGANDA_DISTRICT_COORDS[((k - 1) \div Len(CLASSES)) + 1].name,
                    CLASSES[((k - 1) % Len(CLASSES)) + 1])
     IN  job' = [job EXCEPT !.breakdown_counts = Append(@, count),
                            !.pc = IF k = Len(UGANDA_DISTRICT_COORDS) * Len(CLASSES)
                                   THEN "respond" ELSE "breakdown"]
  /\ UNCHANGED <<store, now, req, resp>>

\* lines 523-537
analytics_respond ==
  /\ job.pc = "respond"
  /\ job' = [job EXCEPT !.pc = "done",
                        !.response =
                           response_data(now, job.query.days, job.detections,
                                         job.last_week_count,
                                         job.previous_week_count,
                                         job.daily_counts, job.district_counts,
                                         job.breakdown_counts)]
  /\ UNCHANGED <<store, now, req, resp>>

\* the response goes out to the caller
analytics_return ==
  /\ job.pc = "done"
  /\ job' = Idle
  /\ UNCHANGED <<store, now, req, resp>>

ConcurrentIngests ==
  {<<FormAt(K_KAMPALA, None), O_HEALTHY>>,
   <<FormAt(K_CORNER, Some("Nairobi")), O_EGG>>}

NextConcurrent ==
  \/ \E sample \in ConcurrentIngests : detect(sample[1], sample[2])
  \/ Return
  \/ analytics_begin(0, None, None)
  \/ analytics_base
  \/ analytics_last_week
  \/ analytics_previous_week
  \/ analytics_daily
  \/ analytics_district_counts
  \/ analytics_breakdown
  \/ analytics_respond
  \/ analytics_return

SpecConcurrent == Init /\ [][NextConcurrent]_vars

-----------------------------------------------------------------------------
(* Properties of ingestion, location update and district resolution,       *)
(* checked under Spec.                                                       *)

InBox(latitude, longitude) ==
  /\ -1500000 <= latitude /\ latitude <= 4200000
  /\ 29500000 <= longitude /\ longitude <= 35000000

FormHasCoordinates(form) ==
  /\ ~ IsNone(form.latitude) /\ Val(form.latitude).numeric
  /\ ~ IsNone(form.longitude) /\ Val(form.longitude).numeric

FormInBox(form) ==
  /\ FormHasCoordinates(form)
  /\ InBox(Val(form.latitude).value, Val(form.longitude).value)

\* C1: a detect request changes the store only by appending one row, and
\* only if its latitude and longitude are present and inside the bounding
\* box and the classifier reports is_maize; so every stored row is inside
\* the bounding box.
C1_PersistOnlyInBoxMaize ==
  /\ [](\A i \in 1..Len(store) : InBox(store[i].latitude, store[i].longitude))
  /\ [][req'.op = "detect" /\ store' # store =>
          /\ FormInBox(req'.form)
          /\ ~ req'.results.raised /\ req'.results.is_maize
          /\ Len(store') = Len(store) + 1
          /\ SubSeq(store', 1, Len(store)) = store
          /\ store'[Len(store')].latitude = Val(req'.form.latitude).value
          /\ store'[Len(store')].longitude = Val(req'.form.longitude).value]_vars

\* a row is stored, and an ingestion at (10.0, 10.0) has just been refused
C1_Witness ==
  /\ Len(store) >= 1
  /\ req.op = "detect"
  /\ req.form = FormAt(K_FAR_OUT, None)
  /\ req.results = O_EGG
  /\ resp.status = 400

\* the gazetteer entry resolveDistrict is specified to return: none outside
\* the box; inside, the first entry at the least distance if that distance
\* is at most 50 km
NearestWithin50(latitude, longitude) ==
  IF ~ InBox(latitude, longitude) THEN None
  ELSE
    LET N == Len(UGANDA_DISTRICT_COORDS)
        D(i) == calculate_distance(latitude, longitude,
                                   UGANDA_DISTRICT_COORDS[i].lat,
                                   UGANDA_DISTRICT_COORDS[i].lon)
        first == CHOOSE i \in 1..N :
                   /\ \A j \in 1..N : D(i) <= D(j)
                   /\ \A j \in 1..(i - 1) : D(j) > D(i)
    IN  IF D(first) <= 50000000
        THEN Some(UGANDA_DISTRICT_COORDS[first].name)
        ELSE None

\* C10: on the coordinates of every ingestion request,
\* get_district_from_coordinates returns None outside the bounding box and,
\* inside it, the first gazetteer entry at the least distance if that
\* distance is at most 50 km and None otherwise; an ingestion that left the
\* district empty stores that entry's name.
C10_ResolveNearestFirst ==
  req.op = "detect" /\ FormHasCoordinates(req.form) =>
    LET latitude == Val(req.form.latitude).value
        longitude == Val(req.form.longitude).value
        expected == NearestWithin50(latitude, longitude)
    IN  /\ get_district_from_coordinates(latitude, longitude) = expected
        /\ (resp.status = 200 /\ resp.stored /\ IsNone(req.form.district)) =>
             resp.district = (IF IsNone(expected) THEN "" ELSE Val(expected))

\* an ingestion at the point equidistant from Mbale and Tororo stored Mbale,
\* the earlier of the two in the gazetteer
C10_Witness ==
  /\ req.op = "detect"
  /\ req.form = FormAt(K_TIE, None)
  /\ resp.status = 200 /\ resp.stored
  /\ resp.district = "Mbale"
  /\ calculate_distance(K_TIE[1], K_TIE[2], 1075000, 34175000)
       = calculate_distance(K_TIE[1], K_TIE[2], 708300, 34175000)

UpdateHasCoordinates(body) == ~ IsNone(body.latitude) /\ ~ IsNone(body.longitude)

UpdateInBox(body) ==
  UpdateHasCoordinates(body) /\ InBox(Val(body.latitude), Val(body.longitude))

Exists(S, detection_id) == \E i \in 1..Len(S) : S[i].id = detection_id

RowOf(S, detection_id) == S[CHOOSE i \in 1..Len(S) : S[i].id = detection_id]

\* the district the claim has stored: the caller's if not empty, else the
\* resolver's
DistrictKept(supplied, latitude, longitude) ==
  IF ~ IsNone(supplied) /\ Val(supplied) # "" THEN Val(supplied)
  ELSE LET d == NearestWithin50(latitude, longitude)
       IN  IF IsNone(d) THEN "" ELSE Val(d)

\* C6: an ingestion that stores a row, and a location update with in-box
\* coordinates on an existing id, store the caller's district when it is
\* not empty and the resolver's result when it is.
C6_SuppliedDistrictKept ==
  /\ (req.op = "detect" /\ resp.status = 200 /\ resp.stored) =>
       store[Len(store)].district =
         DistrictKept(req.form.district, Val(req.form.latitude).value,
                      Val(req.form.longitude).value)
  /\ (req.op = "update_location" /\ UpdateInBox(req.body)
        /\ Exists(store, req.detection_id)) =>
       RowOf(store, req.detection_id).district =
         DistrictKept(req.body.district, Val(req.body.latitude),
                      Val(req.body.longitude))

\* C7: a location update is refused as MissingInput (400, missing location
\* data) when a coordinate is missing, as OutOfBounds (400, coordinates
\* outside Uganda) when they are outside the box, and as NotFound (404) when
\* the id is not in the store; and it leaves the store as it was.
C7_UpdateRejections ==
  [][req'.op = "update_location" /\ req' # req =>
       /\ ~ UpdateHasCoordinates(req'.body) =>
            resp'.status = 400 /\ resp'.error = "Missing location data"
                               /\ store' = store
       /\ (UpdateHasCoordinates(req'.body) /\ ~ UpdateInBox(req'.body)) =>
            resp'.status = 400 /\ resp'.error = "Coordinates outside Uganda"
                               /\ store' = store
       /\ (UpdateInBox(req'.body) /\ ~ Exists(store, req'.detection_id)) =>
            resp'.status = 404 /\ resp'.error = "Detection not found"
                               /\ store' = store]_vars

\* C8: ids are unique and rows are never deleted; a location update with
\* in-box coordinates on an existing id is accepted and sets the latitude,
\* longitude and district of that row, and nothing else.
C8_UpdateChangesLocationOnly ==
  /\ [](\A i, j \in 1..Len(store) : store[i].id = store[j].id => i = j)
  /\ [][Len(store') >= Len(store)
          /\ \A i \in 1..Len(store) :
               /\ store'[i].id = store[i].id
               /\ store'[i].timestamp = store[i].timestamp
               /\ store'[i].result = store[i].result
               /\ store'[i].description = store[i].description
               /\ store'[i].confidence = store[i].confidence
               /\ store'[i].class = store[i].class]_vars
  /\ [][(req'.op = "update_location" /\ req' # req /\ UpdateInBox(req'.body)
           /\ Exists(store, req'.detection_id)) =>
          /\ resp'.status = 200
          /\ RowOf(store', req'.detection_id).latitude = Val(req'.body.latitude)
          /\ RowOf(store', req'.detection_id).longitude = Val(req'.body.longitude)
          /\ \A i \in 1..Len(store) :
               store[i].id # req'.detection_id => store'[i] = store[i]]_vars

-----------------------------------------------------------------------------
(* Properties of one analytics response, checked under SpecAnalytics.      *)

RowInBox(row) == InBox(row.latitude, row.longitude)

\* the filter of the request: time window, bounding box, class, district
Matches(row, q) ==
  /\ row.timestamp >= now - q.days * TicksPerDay
  /\ RowInBox(row)
  /\ (~ IsNone(q.class) /\ Val(q.class) # "") => row.class = Val(q.class)
  /\ (~ IsNone(q.district) /\ Val(q.district) # "") => row.district = Val(q.district)

Unfiltered(q) ==
  /\ IsNone(q.class) \/ Val(q.class) = ""
  /\ IsNone(q.district) \/ Val(q.district) = ""

At(f, k) == IF k \in DOMAIN f THEN f[k] ELSE 0

RECURSIVE SumSeq(_)
SumSeq(xs) == IF xs = <<>> THEN 0 ELSE Head(xs) + SumSeq(Tail(xs))

RECURSIVE SumOf(_, _)
SumOf(f, keys) ==
  IF keys = {} THEN 0
  ELSE LET k == CHOOSE k \in keys : TRUE IN f[k] + SumOf(f, keys \ {k})

Answered == req.op = "analytics_data" /\ resp.status = 200

\* C9: in every analytics response the values of class_distribution, whose
\* keys are among the five classes, add up to total_detections, which is
\* the number of rows the request's filter matches.
C9_DistributionSumsToTotal ==
  Answered =>
    /\ DOMAIN resp.class_distribution \subseteq {CLASSES[c] : c \in 1..5}
    /\ SumSeq([c \in 1..5 |-> At(resp.class_distribution, CLASSES[c])])
         = resp.total_detections
    /\ resp.total_detections = Cardinality({i \in 1..Len(store) : Matches(store[i], req)})

\* a response that counts two rows, one of them of class unknown
C9_Witness ==
  /\ Answered
  /\ resp.total_detections = 2
  /\ At(resp.class_distribution, "unknown") = 1

\* C3 as claimed: with no class and no district filter, the daily counts of
\* each class over the days+1 labels add up to that class's count in
\* class_distribution.
C3_SeriesSumsToDistribution ==
  (Answered /\ Unfiltered(req)) =>
    /\ Len(resp.time_series.labels) = req.days + 1
    /\ \A c \in 1..5 :
         SumSeq(resp.time_series.data[c]) = At(resp.class_distribution, CLASSES[c])

\* C4 as claimed: the district counts of a response add up to the number of
\* rows counted in total_detections that have a district.
C4_DistrictCountsUnderSameFilter ==
  Answered =>
    SumOf(resp.district_counts, DOMAIN resp.district_counts)
      = Cardinality({i \in 1..Len(store) : Matches(store[i], req) /\ store[i].district # ""})

\* the trend the claim and its amendment describe, in tenths of a percent:
\* the tenth nearest to (last - prev) / prev * 100; 0; or 100
IsTrendOf(x, last, prev) ==
  IF prev > 0
  THEN LET d == x * prev - 1000 * (last - prev)
       IN  2 * d <= prev /\ -2 * d <= prev
  ELSE IF last = 0 THEN x = 0 ELSE x = 1000

\* C5 as claimed: last counts the in-box rows of the instants
\* [now - 7 days, now), prev those of [now - 14 days, now - 7 days).
C5_TrendOverInstants ==
  Answered =>
    IsTrendOf(resp.recent_trend,
              Cardinality({i \in 1..Len(store) :
                                            /\ RowInBox(store[i])
                                            /\ store[i].timestamp >= now - 7 * TicksPerDay
                                            /\ store[i].timestamp < now}),
              Cardinality({i \in 1..Len(store) :
                                            /\ RowInBox(store[i])
                                            /\ store[i].timestamp >= now - 14 * TicksPerDay
                                            /\ store[i].timestamp < now - 7 * TicksPerDay}))

Today == now \div TicksPerDay

DayOf(row) == row.timestamp \div TicksPerDay

\* C5 as amended: last counts the in-box rows of the seven calendar days
\* before today, prev those of the seven days before these; the rows of
\* today are in neither, and the class and district filters play no part.
C5_TrendOverCalendarDays ==
  Answered =>
    IsTrendOf(resp.recent_trend,
              Cardinality({i \in 1..Len(store) :
                                            /\ RowInBox(store[i])
                                            /\ DayOf(store[i]) >= Today - 7
                                            /\ DayOf(store[i]) < Today}),
              Cardinality({i \in 1..Len(store) :
                                            /\ RowInBox(store[i])
                                            /\ DayOf(store[i]) >= Today - 14
                                            /\ DayOf(store[i]) < Today - 7}))

\* a response under a class filter that matches no row, with a row a week
\* old and a row two weeks old: one against one, a trend of 0
C5_Witness ==
  /\ Answered
  /\ ~ Unfiltered(req)
  /\ resp.total_detections = 0
  /\ resp.recent_trend = 0
  /\ \E i \in 1..Len(store) : DayOf(store[i]) = Today - 7
  /\ \E i \in 1..Len(store) : DayOf(store[i]) = Today - 14

-----------------------------------------------------------------------------
(* Properties of an analytics request served beside ingestions, checked    *)
(* under SpecConcurrent.                                                    *)

\* C2 as claimed: the response of an analytics request is the one the
\* handler computes from a single snapshot of the store: from the rows
\* committed at some one moment, which are the first n rows for some n.
C2_OneSnapshot ==
  job.pc = "done" =>
    \E n \in 0..Len(store) :
      job.response =
        api_analytics_data_handler(SubSeq(store, 1, n), now, job.query.days,
                                   job.query.class, job.query.district)


-----------------------------------------------------------------------------
(* The class mapping of detect on composed result texts.  The detector's   *)
(* text is free text: here it is any run of at most two of the words       *)
(* below, so that the patterns occur alone, together in either order, in   *)
(* mixed case, and split over two words.                                   *)

W_LARVAL == <<"L", "A", "R", "V", "A", "L", " ", "d", "a", "m", "a", "g", "e">>

W_EGG == <<"E", "g", "g">>

W_FRASS == <<"f", "r", "a", "S", "S">>

W_HEALTHY == <<"H", "e", "a", "l", "t", "h", "y">>

\* the first word of 'larval damage' alone
W_LARVAL_ONLY == <<"l", "a", "r", "v", "a", "l">>

\* the rest of 'larval damage'
W_DAMAGE == <<" ", "D", "a", "m", "a", "g", "e">>

Words == {W_LARVAL, W_EGG, W_FRASS, W_HEALTHY, W_LARVAL_ONLY, W_DAMAGE}

ResultTexts == {<<>>} \cup Words \cup {a \o b : a \in Words, b \in Words}

NextClassify ==
  \/ \E text \in ResultTexts :
       detect(FormAt(K_KAMPALA, Some("Kampala")), Results(text, "", 50, TRUE))
  \/ \E text \in Words :
       detect(FormAt(K_KAMPALA, Some("Kampala")), Results(text, "", 50, FALSE))
  \/ Return

SpecClassify == Init /\ [][NextClassify]_vars

-----------------------------------------------------------------------------
(* Properties of the class mapping, checked under SpecClassify.            *)

\* one letter, in either case
SameLetter(a, b) ==
  \/ a = b
  \/ \E i \in 1..Len(UPPER) :
       \/ (a = UPPER[i] /\ b = LOWER[i])
       \/ (a = LOWER[i] /\ b = UPPER[i])

\* the text has the pattern as a substring, letter case aside
Mentions(text, pattern) ==
  \E i \in 0..(Len(text) - Len(pattern)) :
    \A j \in 1..Len(pattern) : SameLetter(text[i + j], pattern[j])

\* the label the fixed order of patterns gives a text
Label(text) ==
  IF Mentions(text, P_LARVAL) THEN "fall-armyworm-larval-damage"
  ELSE IF Mentions(text, P_EGG) THEN "fall-armyworm-egg"
  ELSE IF Mentions(text, P_FRASS) THEN "fall-armyworm-frass"
  ELSE IF Mentions(text, P_HEALTHY) THEN "healthy-maize"
  ELSE "unknown"

Labels ==
  {"fall-armyworm-larval-damage", "fall-armyworm-egg", "fall-armyworm-frass",
   "healthy-maize", "unknown"}

Classified == req.op = "detect" /\ resp.status = 200

\* C11: the class detect answers is the label of the result text: the first
\* of 'larval damage', 'egg', 'frass', 'healthy' that the text has as a
\* substring, letter case aside, decides, and a text with none of them (the
\* empty text too) is unknown; every stored record's class is the label of
\* its result text, hence one of the five labels, and records of one text
\* have one class.
C11_ClassifyFirstMatch ==
  /\ Classified =>
       /\ resp.class = Label(req.results.result)
       /\ resp.class \in Labels
  /\ \A i \in 1..Len(store) :
       /\ store[i].class = Label(store[i].result)
       /\ store[i].class \in Labels
  /\ \A i, k \in 1..Len(store) :
       store[i].result = store[k].result => store[i].class = store[k].class

\* a text with 'egg' before 'larval damage' was stored as larval damage, and
\* the empty text as unknown
C11_Witness ==
  /\ Classified
  /\ resp.stored
  /\ req.results.result = W_EGG \o W_LARVAL
  /\ resp.class = "fall-armyworm-larval-damage"
  /\ \E i \in 1..Len(store) : store[i].result = <<>> /\ store[i].class = "unknown"


-----------------------------------------------------------------------------
(* The analytics handler on a table that earlier runs have filled: init_db *)
(* creates the table only if it does not exist (line 15), so the server    *)
(* starts on the rows that detect stored before.                           *)

MaxStored == 4

\* what the detector made of the images of the stored rows
StoredOutcomes == {O_HEALTHY, O_LARVAL, O_EMPTY}

\* the rows detect leaves after the requests with these outcomes, in order
RECURSIVE stored_by(_)
stored_by(outcomes) ==
  IF outcomes = <<>> THEN <<>>
  ELSE detect_handler(stored_by(SubSeq(outcomes, 1, Len(outcomes) - 1)), 0,
                      FormAt(K_KAMPALA, Some("Kampala")),
                      outcomes[Len(outcomes)]).store

StoresOnDisk ==
  {stored_by(outcomes) :
     outcomes \in UNION {[1..n -> StoredOutcomes] : n \in 0..MaxStored}}

InitOnDisk ==
  /\ store \in StoresOnDisk
  /\ now = 0
  /\ req = NoRequest
  /\ resp = NoResponse
  /\ job = Idle

RateQueries ==
  {Query(7, None, None),
   Query(7, Some("healthy-maize"), None),
   Query(7, None, Some("Mbale"))}

NextRate ==
  \/ \E q \in RateQueries : api_analytics_data(q.days, q.class, q.district)
  \/ Return
  \/ TickWeek

SpecRate == InitOnDisk /\ [][NextRate]_vars

-----------------------------------------------------------------------------
(* Properties of the infestation rate, checked under SpecRate.  Rates are  *)
(* in tenths of a percent.                                                  *)

Matching == {i \in 1..Len(store) : Matches(store[i], req)}

MatchingHealthy == {i \in Matching : store[i].class = "healthy-maize"}

\* x is the tenth nearest to (total - healthy) / total * 100
IsRateOf(x, total, healthy) ==
  LET d == x * total - 1000 * (total - healthy)
  IN  2 * d <= total /\ -2 * d <= total

\* the metrics counted from the rows the filter matches are zero or empty
NothingMatched ==
  /\ resp.total_detections = 0
  /\ resp.districts_affected = 0
  /\ resp.infestation_rate = 0
  /\ DOMAIN resp.class_distribution = {}

\* every metric is zero or empty
NothingCounted ==
  /\ NothingMatched
  /\ resp.recent_trend = 0
  /\ \A c \in DOMAIN resp.time_series.data :
       \A i \in DOMAIN resp.time_series.data[c] : resp.time_series.data[c][i] = 0
  /\ DOMAIN resp.district_counts = {}
  /\ \A g \in DOMAIN resp.district_class_data :
       DOMAIN resp.district_class_data[g] = {}

\* an analytics request is answered, not refused; a filter that matches no
\* row gives zero and empty metrics, and a table with no row gives them all
GracefulOnEmpty ==
  req.op = "analytics_data" =>
    /\ resp.status = 200
    /\ Matching = {} => NothingMatched
    /\ store = <<>> => NothingCounted

-----------------------------------------------------------------------------
(* Properties of the district and class breakdown of an analytics          *)
(* response, checked under SpecAnalytics.                                   *)

\* the in-box rows of a district within the time window of the request
RowsOfDistrict(district) ==
  {i \in 1..Len(store) : /\ RowInBox(store[i])
                         /\ store[i].district = district
                         /\ store[i].timestamp >= now - req.days * TicksPerDay}

\* C13: the keys of district_class_data are the gazetteer's district names,
\* whatever districts the stored rows have; the mapping of a district has,
\* for each class, the number of in-box rows of that district and class
\* within the time window, has no class with count zero, and is empty for a
\* district with no such row.
C13_BreakdownOverGazetteer ==
  Answered =>
    /\ DOMAIN resp.district_class_data = DistrictNames
    /\ \A d \in DistrictNames :
         LET m == resp.district_class_data[d]
         IN  /\ DOMAIN m \subseteq Labels
             /\ \A c \in Labels :
                  At(m, c) = Cardinality({i \in RowsOfDistrict(d) : store[i].class = c})
             /\ \A c \in DOMAIN m : m[c] > 0
             /\ RowsOfDistrict(d) = {} => DOMAIN m = {}

\* a response with Kampala's one healthy row and no other class for it,
\* while a row of a district outside the gazetteer is in the window
C13_Witness ==
  /\ Answered
  /\ DOMAIN resp.district_class_data["Kampala"] = {"healthy-maize"}
  /\ resp.district_class_data["Kampala"]["healthy-maize"] = 1
  /\ RowsOfDistrict("Nairobi") # {}
  /\ DOMAIN resp.district_class_data["Mbale"] = {}

====
